---- MODULE Spec2Model ----
(***************************************************************************)
(* Verification model of amrod28/ctf-test-gen.                             *)
(*                                                                         *)
(*   ctf-challenge-gen/generate_binaries.py   the challenge generator      *)
(*   ctf-binary-gen/generate_docker_compose.py  the compose packager       *)
(*                                                                         *)
(* Three specifications share this module:                                 *)
(*   SpecSrc  the content generator (gen_flag, xor_encode_bytes,           *)
(*            prepare_program_from_template) on character sequences        *)
(*   Spec     the generator's driver loop and build_one, step by step      *)
(*   SpecPkg  the packager's main()                                        *)
(* Text is a sequence of one-character strings, so that substitution,      *)
(* formatting and parsing are computed character by character.             *)
(***************************************************************************)
EXTENDS Integers, Sequences, FiniteSets

(***************************************************************************)
(* Bounds of the model (not program constants)                             *)
(***************************************************************************)
\* templates are concatenations of at most MaxPieces pieces
MaxPieces == 3
\* flags are drawn from the family FlagBody(seed), seed in 0..MaxSeed
MaxSeed == 2
\* size in bytes of a built binary: 1..MaxBinSize
MaxBinSize == 1
\* random.randint spans up to MaxDrawSpan are followed exhaustively
MaxDrawSpan == 3
\* manifests have at most MaxEntries entries
MaxEntries == 2

(***************************************************************************)
(* Characters and text                                                     *)
(***************************************************************************)
ascii_lowercase ==
  <<"a","b","c","d","e","f","g","h","i","j","k","l","m",
    "n","o","p","q","r","s","t","u","v","w","x","y","z">>

digits == <<"0","1","2","3","4","5","6","7","8","9">>

HexDigits == <<"0","1","2","3","4","5","6","7","8","9","a","b","c","d","e","f">>

Range(s) == { s[i] : i \in 1..Len(s) }

IndexOf(c, s) == CHOOSE i \in 1..Len(s) : s[i] = c

OrdTable ==
  [ c \in Range(ascii_lowercase) \cup Range(digits) \cup {"{", "}", "\\", "_", "x"} |->
      IF c \in Range(ascii_lowercase) THEN 96 + IndexOf(c, ascii_lowercase)
      ELSE IF c \in Range(digits) THEN 47 + IndexOf(c, digits)
      ELSE IF c = "{" THEN 123
      ELSE IF c = "}" THEN 125
      ELSE IF c = "\\" THEN 92
      ELSE 95 ]

\* code point of a character, as str.encode('utf-8') yields for ASCII text
Ord(c) == OrdTable[c]

\* s.encode('utf-8') on ASCII text
Encode(s) == [ i \in 1..Len(s) |-> Ord(s[i]) ]

\* s[i..] starts with pat
MatchAt(s, pat, i) ==
  /\ i >= 1
  /\ i + Len(pat) - 1 <= Len(s)
  /\ \A k \in 1..Len(pat) : s[i + k - 1] = pat[k]

\* index of the first occurrence of pat in s at or after i, 0 when there is none
Find(s, pat, i) ==
  LET M == { j \in i..(Len(s) - Len(pat) + 1) : MatchAt(s, pat, j) }
  IN IF M = {} THEN 0 ELSE CHOOSE m \in M : \A n \in M : m <= n

\* Python's `pat in s`
Contains(s, pat) == Find(s, pat, 1) # 0

RECURSIVE ReplaceFrom(_, _, _, _)
ReplaceFrom(s, old, new, i) ==
  LET j == Find(s, old, i)
  IN IF j = 0 THEN SubSeq(s, i, Len(s))
     ELSE SubSeq(s, i, j - 1) \o new \o ReplaceFrom(s, old, new, j + Len(old))

\* Python's s.replace(old, new): every non-overlapping occurrence, left to right
Replace(s, old, new) == ReplaceFrom(s, old, new, 1)

RECURSIVE Str(_)
\* Python's str(n) for n >= 0
Str(n) == IF n < 10 THEN << digits[n + 1] >>
          ELSE Str(n \div 10) \o << digits[(n % 10) + 1] >>

RECURSIVE XorBits(_, _)
XorBits(a, b) == IF a = 0 /\ b = 0 THEN 0
                 ELSE (((a % 2) + (b % 2)) % 2) + (2 * XorBits(a \div 2, b \div 2))

XorTable == [ a \in 0..255 |-> [ b \in 0..255 |-> XorBits(a, b) ] ]

\* bitwise exclusive or of two bytes (Python's ^)
Xor(a, b) == XorTable[a][b]

RECURSIVE Flatten(_)
Flatten(ss) == IF ss = << >> THEN << >> ELSE Head(ss) \o Flatten(Tail(ss))

(***************************************************************************)
(* Content generator: generate_binaries.py lines 56-81                     *)
(***************************************************************************)
PH_FLAG == <<"{","F","L","A","G","}">>
PH_XOR_ENC == <<"{","X","O","R","_","E","N","C","}">>
PH_KEY == <<"{","K","E","Y","}">>
PH_RANDOM_INT == <<"{","R","A","N","D","O","M","_","I","N","T","}">>

\* k=12 in gen_flag
FLAG_K == 12
\* random.randint(1, 255) in xor_encode_bytes
KEY_MAX == 255
\* random.randint(1, 10_000) in prepare_program_from_template
RANDOM_INT_MAX == 10000

FlagAlphabet == ascii_lowercase \o digits

\* one outcome of random.choices(ascii_lowercase + digits, k=12)
FlagBody(seed) ==
  [ k \in 1..FLAG_K |-> FlagAlphabet[(((5 * seed) + (7 * (k - 1))) % Len(FlagAlphabet)) + 1] ]

gen_flag(seed) == <<"f","l","a","g","{">> \o FlagBody(seed) \o <<"}">>

\* formatting with '\\x{:x}': no zero padding
EscByteNoPad(b) ==
  IF b < 16 THEN << "\\", "x", HexDigits[b + 1] >>
  ELSE << "\\", "x", HexDigits[(b \div 16) + 1], HexDigits[(b % 16) + 1] >>

EscByte(b) == << "\\", "x", HexDigits[(b \div 16) + 1], HexDigits[(b % 16) + 1] >>

\* xor_encode_bytes(s) with the drawn key: the pair <<esc, key>>
xor_encode_bytes(s, k) ==
  LET bs == Encode(s)
      enc_bytes == [ i \in 1..Len(bs) |-> Xor(bs[i], k) ]
  IN << Flatten([ i \in 1..Len(enc_bytes) |-> EscByte(enc_bytes[i]) ]), k >>

ReplaceFirst(s, old, new) ==
  LET j == Find(s, old, 1)
  IN IF j = 0 THEN s
     ELSE SubSeq(s, 1, j - 1) \o new \o SubSeq(s, j + Len(old), Len(s))

\* replace(old, new, 1): only the first occurrence
SubstFlagOnce(template_text, f) == ReplaceFirst(template_text, PH_FLAG, f)

\* line 68
SubstFlag(template_text, f) == Replace(template_text, PH_FLAG, f)

\* lines 73-74
SubstXor(prog, e, k) == Replace(Replace(prog, PH_XOR_ENC, e), PH_KEY, Str(k))

\* line 79
SubstRandomInt(prog, ri) == Replace(prog, PH_RANDOM_INT, Str(ri))

(***************************************************************************)
(* State of the three programs                                             *)
(***************************************************************************)
VARIABLES
  templates_dir, \* the directory templates/: does it exist, its template files
  templates,     \* list_templates()
  pc,            \* position of the run
  i,             \* loop index of the driver
  tpl,           \* the template chosen for job i (index into templates)
  exc,           \* exception in flight ("none" when there is none)
  meta,          \* build_one locals
  cflags_choices, pad_max, difficulty, out_dir, jflag, cflags,
  built_size,    \* size of out_dir/challenge when the build returned, 0: no file
  bin_size,      \* size of out_dir/challenge now, 0: no file
  pad_len, meta_out,
  ctx,           \* per job: temporary build context "none" | "exists" | "removed"
  out_dirs,      \* per attempted job: the output directory it created
  writers,       \* <<directory, file, job>>: who wrote which output file
  results,       \* the driver's results list
  log,           \* lines printed, as <<kind, job>>
  attempted,     \* jobs for which build_one was called
  build_failed   \* jobs whose external build failed

locals == << meta, cflags_choices, pad_max, difficulty, out_dir, jflag, cflags,
             built_size, bin_size, pad_len, meta_out >>

genVars == << templates_dir, templates, pc, i, tpl, exc, locals, ctx, out_dirs, writers, results,
              log, attempted, build_failed >>

VARIABLES
  manifest,      \* the JSON document named on the command line
  service, image,\* --service, --image
  prior,         \* the output directory when the run started
  bd_exists,     \* the output directory exists
  bd_files,      \* its files
  entries,       \* normalize_entries(raw)
  pos,             \* position of prepare_build_context's loop in entries
  compose,       \* docker-compose.yml: << >> when not written
  ppc,           \* position of main()
  status         \* exit status of the run, -1 while it runs

pkgVars == << manifest, service, image, prior, bd_exists, bd_files, entries, pos,
              compose, ppc, status >>

VARIABLES
  tpl_text,      \* prepare_program_from_template's argument template_text
  flag,          \* its argument flag
  program,       \* its local program
  enc, key,      \* the pair xor_encode_bytes returned
  spc            \* position inside prepare_program_from_template

srcVars == << tpl_text, flag, program, enc, key, spc >>

vars == << genVars, srcVars, pkgVars >>

(***************************************************************************)
(* Packager: generate_docker_compose.py                                    *)
(***************************************************************************)
DOCKERFILE_NAME == "Dockerfile"

\* a path of the manifest: its directory and its final component
\* (Path(p).name); directory "out" is the output build-context directory
PathOf(dir, base) == [ dir |-> dir, base |-> base ]

ManifestPaths ==
  { PathOf("bins", "a.bin"), PathOf("bins", "b.bin"), PathOf("other", "a.bin"),
    PathOf("out", "a.bin"), PathOf("bins", "missing.bin") }

\* files of the workspace outside the output directory
WorkspaceFiles ==
  { PathOf("bins", "a.bin"), PathOf("bins", "b.bin"), PathOf("other", "a.bin") }

\* a JSON string holding a path, and a JSON value that is not a string
JStr(p) == [ is_str |-> TRUE, path |-> p ]

JNotStr == [ is_str |-> FALSE, path |-> PathOf("", "") ]

JValues == { JStr(p) : p \in ManifestPaths } \cup { JNotStr }

ManifestKeys == { "a.bin", "x.bin", DOCKERFILE_NAME }

\* JSON arrays of at most MaxEntries items
ListManifests ==
  { [ kind |-> "list", items |-> its ] :
      its \in UNION { [ 1..n -> JValues ] : n \in 0..MaxEntries } }

\* JSON objects of at most MaxEntries members, keys distinct, in file order
DictManifests ==
  { [ kind |-> "dict", items |-> its ] :
      its \in { m \in UNION { [ 1..n -> ManifestKeys \X JValues ] : n \in 0..MaxEntries } :
                  \A a, b \in DOMAIN m : a # b => m[a][1] # m[b][1] } }

\* no file, a file that is not JSON, JSON that is neither array nor object
OtherManifests ==
  { [ kind |-> k, items |-> << >> ] : k \in { "missing", "malformed", "scalar" } }

Manifests == ListManifests \cup DictManifests \cup OtherManifests

\* files of a directory: a set of <<name, content>>, one per name
Names(files) == { f[1] : f \in files }

ContentAt(files, name) == (CHOOSE f \in files : f[1] = name)[2]

Put(files, name, content) == { f \in files : f[1] # name } \cup { << name, content >> }

OldFile == [ kind |-> "old", of |-> PathOf("", ""), x |-> FALSE ]

Recipe == [ kind |-> "recipe", of |-> PathOf("", ""), x |-> FALSE ]

CopyOf(p) == [ kind |-> "copy", of |-> p, x |-> FALSE ]

\* contents of the output directory left by earlier runs
PriorDirs ==
  { [ exists |-> FALSE, files |-> {} ],
    [ exists |-> TRUE, files |-> {} ],
    [ exists |-> TRUE, files |-> { << "old.bin", OldFile >> } ],
    [ exists |-> TRUE, files |-> { << "a.bin", [ CopyOf(PathOf("bins", "a.bin")) EXCEPT !.x = TRUE ] >>,
                                   << DOCKERFILE_NAME, Recipe >> } ] }

ServiceNames == { "binaries", "svc" }

ImageNames == { "ctf-binaries:latest" }

\* raise SystemExit(message) inside normalize_entries
WrongShape == [ ok |-> FALSE, entries |-> << >> ]

\* lines 43-59: the list of (name, path) tuples, or SystemExit for a wrong shape
normalize_entries(data) ==
  IF data.kind = "list"
  THEN IF \E n \in DOMAIN data.items : ~data.items[n].is_str
       THEN WrongShape
       ELSE [ ok |-> TRUE,
              entries |-> [ n \in DOMAIN data.items |->
                              << data.items[n].path.base, data.items[n].path >> ] ]
  ELSE IF data.kind = "dict"
  THEN IF \E n \in DOMAIN data.items : ~data.items[n][2].is_str
       THEN WrongShape
       ELSE [ ok |-> TRUE,
              entries |-> [ n \in DOMAIN data.items |->
                              << data.items[n][1], data.items[n][2].path >> ] ]
  ELSE WrongShape

\* line 71: src.exists()
SrcExists(p) ==
  IF p.dir = "out" THEN bd_exists /\ p.base \in Names(bd_files)
  ELSE p \in WorkspaceFiles

\* the bytes shutil.copy2 reads from p
SrcContent(p) ==
  IF p.dir = "out" THEN [ ContentAt(bd_files, p.base) EXCEPT !.x = FALSE ]
  ELSE CopyOf(p)

InitPkg ==
  /\ manifest \in Manifests
  /\ service \in ServiceNames
  /\ image \in ImageNames
  /\ prior \in PriorDirs
  /\ bd_exists = prior.exists
  /\ bd_files = prior.files
  /\ entries = << >>
  /\ pos = 0
  /\ compose = << >>
  /\ ppc = "load"
  /\ status = -1

\* raise SystemExit(message): the run ends with status 1
SystemExit ==
  /\ ppc' = "exit"
  /\ status' = 1

\* lines 113-119 when the manifest is missing, malformed or of a wrong shape
PkgLoadFails ==
  /\ ppc = "load"
  /\ \/ manifest.kind \in { "missing", "malformed" }
     \/ ~normalize_entries(manifest).ok
  /\ SystemExit
  /\ UNCHANGED << manifest, service, image, prior, bd_exists, bd_files, entries, pos,
                  compose >>
  /\ UNCHANGED << genVars, srcVars >>

\* lines 113-121
PkgLoad ==
  /\ ppc = "load"
  /\ manifest.kind \in { "list", "dict" }
  /\ normalize_entries(manifest).ok
  /\ entries' = normalize_entries(manifest).entries
  /\ ppc' = "clear"
  /\ UNCHANGED << manifest, service, image, prior, bd_exists, bd_files, pos, compose,
                  status >>
  /\ UNCHANGED << genVars, srcVars >>

\* lines 64-66: rmtree the output directory if it exists, then mkdir
PkgClear ==
  /\ ppc = "clear"
  /\ bd_exists' = TRUE
  /\ bd_files' = {}
  /\ pos' = 1
  /\ ppc' = "copy"
  /\ UNCHANGED << manifest, service, image, prior, entries, compose, status >>
  /\ UNCHANGED << genVars, srcVars >>

\* lines 69-76, one iteration: copy2 and chmod u+x
PkgCopy ==
  /\ ppc = "copy"
  /\ pos <= Len(entries)
  /\ SrcExists(entries[pos][2])
  /\ bd_files' = Put(bd_files, entries[pos][1],
                     [ SrcContent(entries[pos][2]) EXCEPT !.x = TRUE ])
  /\ pos' = pos + 1
  /\ UNCHANGED << manifest, service, image, prior, bd_exists, entries, compose, ppc,
                  status >>
  /\ UNCHANGED << genVars, srcVars >>

\* lines 71-72: Source file not found
PkgCopyMissing ==
  /\ ppc = "copy"
  /\ pos <= Len(entries)
  /\ ~SrcExists(entries[pos][2])
  /\ SystemExit
  /\ UNCHANGED << manifest, service, image, prior, bd_exists, bd_files, entries, pos,
                  compose >>
  /\ UNCHANGED << genVars, srcVars >>

\* line 125: write_dockerfile(out_dir)
PkgWriteDockerfile ==
  /\ ppc = "copy"
  /\ pos > Len(entries)
  /\ bd_files' = Put(bd_files, DOCKERFILE_NAME, Recipe)
  /\ ppc' = "compose"
  /\ UNCHANGED << manifest, service, image, prior, bd_exists, entries, pos, compose,
                  status >>
  /\ UNCHANGED << genVars, srcVars >>

\* lines 126-131: write_compose, then main returns
PkgWriteCompose ==
  /\ ppc = "compose"
  /\ compose' = [ service |-> service, image |-> image, context |-> "out" ]
  /\ ppc' = "done"
  /\ status' = 0
  /\ UNCHANGED << manifest, service, image, prior, bd_exists, bd_files, entries, pos >>
  /\ UNCHANGED << genVars, srcVars >>

NextPkg ==
  \/ PkgLoadFails \/ PkgLoad \/ PkgClear \/ PkgCopy \/ PkgCopyMissing
  \/ PkgWriteDockerfile \/ PkgWriteCompose

\* the packager's variables while another program of the repository runs
IdlePkg ==
  /\ manifest = [ kind |-> "missing", items |-> << >> ]
  /\ service = ""
  /\ image = ""
  /\ prior = [ exists |-> FALSE, files |-> {} ]
  /\ bd_exists = FALSE
  /\ bd_files = {}
  /\ entries = << >>
  /\ pos = 0
  /\ compose = << >>
  /\ ppc = "idle"
  /\ status = -1

(***************************************************************************)
(* Generator: generate_binaries.py lines 12-24, 40-54, 83-157              *)
(***************************************************************************)
\* NUM = 4
NUM == 4

DEFAULT_CFLAGS_CHOICES == << "-O0 -g", "-O2", "-Os", "-O3", "-O1 -s" >>

\* meta.get("pad", 1024)
DEFAULT_PAD_MAX == 1024

\* meta.get("difficulty", "unknown")
DEFAULT_DIFFICULTY == "unknown"

\* JSON values of the sidecar's pad_max / pad fields
JInt(n) == [ int |-> n ]

None == [ none |-> TRUE ]

\* the empty dict {}
EmptyDict == << >>

\* sidecar files <stem>.json: absent, not JSON, a JSON array, or a JSON object
SidecarAbsent == [ kind |-> "absent" ]

SidecarUnparseable == [ kind |-> "unparseable" ]

SidecarArray == [ kind |-> "array" ]

SidecarObject(fields) == [ kind |-> "object", fields |-> fields ]

Template(stem, suffix, sidecar) == [ stem |-> stem, suffix |-> suffix, sidecar |-> sidecar ]

SUFFIX_C == << ".", "c" >>

SUFFIX_TXT == << ".", "t", "x", "t" >>

\* contents of templates/ that the model follows, each as list_templates()
\* returns it (sorted by path)
TemplateStores ==
  { << >>,
    << Template(<<"a">>, SUFFIX_C,
                SidecarObject([ cflags |-> << "-O2" >>, pad_max |-> JInt(0), difficulty |-> "hard" ])),
       Template(<<"a">>, SUFFIX_TXT,
                SidecarObject([ cflags |-> << "-O2" >>, pad_max |-> JInt(0), difficulty |-> "hard" ])) >>,
    << Template(<<"a">>, SUFFIX_C,
                SidecarObject([ cflags |-> << "-O3" >>, pad_max |-> JInt(-1) ])),
       Template(<<"a","_","1">>, SUFFIX_C,
                SidecarObject([ cflags |-> << "-O2", "-Os" >>, pad_max |-> JInt(2),
                                pad |-> JInt(1), difficulty |-> "easy" ])) >>,
    << Template(<<"b">>, SUFFIX_C, SidecarAbsent) >>,
    << Template(<<"c">>, SUFFIX_C, SidecarUnparseable) >>,
    << Template(<<"d">>, SUFFIX_C, SidecarObject([ pad |-> JInt(3) ])) >>,
    << Template(<<"e">>, SUFFIX_C, SidecarObject([ pad_max |-> None, pad |-> JInt(3) ])) >>,
    << Template(<<"f">>, SUFFIX_C, SidecarArray) >>,
    << Template(<<"g">>, SUFFIX_C, SidecarObject([ cflags |-> << >> ])) >> }

\* template_path.name
TemplateName(t) == t.stem \o t.suffix

\* line 47-54: the value load_metadata returns
load_metadata(t) ==
  IF t.sidecar.kind = "object" THEN [ dict |-> TRUE, fields |-> t.sidecar.fields ]
  ELSE IF t.sidecar.kind = "array" THEN [ dict |-> FALSE, fields |-> EmptyDict ]
  ELSE [ dict |-> TRUE, fields |-> EmptyDict ]

\* dict.get(k, d)
Get(fields, k, d) == IF k \in DOMAIN fields THEN fields[k] ELSE d

\* line 86: meta.get("pad_max", meta.get("pad", 1024))
PadMaxOf(fields) == Get(fields, "pad_max", Get(fields, "pad", JInt(DEFAULT_PAD_MAX)))

\* outcomes of gen_flag() that the generator run follows
JobFlagSeeds == { 0 }

\* the directory name without the job index
OutDirNameNoIdx(stem, idx) == stem

\* line 89: f"{template_path.stem}_{idx}"
OutDirName(stem, idx) == stem \o << "_" >> \o Str(idx)

\* line 114: pad_max and pad_max > 0
PadWanted(ceiling) == ceiling # None /\ ceiling # JInt(0) /\ ceiling.int > 0

\* outcomes of random.randint(lo, hi) that the model follows: all of them
\* for a span of at most MaxDrawSpan, the ends and their neighbours otherwise
RandIntDraws(lo, hi) ==
  IF hi - lo <= MaxDrawSpan THEN lo..hi
  ELSE { lo, lo + 1, hi - 1, hi }

\* randint(0, pad_max + 1)
PadDrawsOffByOne(ceiling) == RandIntDraws(0, ceiling.int + 1)

\* line 115: random.randint(0, pad_max)
PadDraws(ceiling) == RandIntDraws(0, ceiling.int)

\* build_one's locals before they are assigned
NoLocals ==
  /\ meta = EmptyDict
  /\ cflags_choices = << >>
  /\ pad_max = None
  /\ difficulty = ""
  /\ out_dir = << >>
  /\ jflag = << >>
  /\ cflags = ""
  /\ built_size = 0
  /\ bin_size = 0
  /\ pad_len = 0
  /\ meta_out = EmptyDict

\* build_one returned or raised: its locals are gone
ClearLocals ==
  /\ meta' = EmptyDict
  /\ cflags_choices' = << >>
  /\ pad_max' = None
  /\ difficulty' = ""
  /\ out_dir' = << >>
  /\ jflag' = << >>
  /\ cflags' = ""
  /\ built_size' = 0
  /\ bin_size' = 0
  /\ pad_len' = 0
  /\ meta_out' = EmptyDict

InitGenWith(dir) ==
  /\ templates_dir = dir
  /\ templates = << >>
  /\ pc = "start"
  /\ i = 0
  /\ tpl = 0
  /\ exc = "none"
  /\ NoLocals
  /\ ctx = [ j \in 0..(NUM - 1) |-> "none" ]
  /\ out_dirs = << >>
  /\ writers = {}
  /\ results = << >>
  /\ log = << >>
  /\ attempted = {}
  /\ build_failed = {}

InitGen ==
  \/ InitGenWith([ exists |-> FALSE, files |-> << >> ])
  \/ \E store \in TemplateStores : InitGenWith([ exists |-> TRUE, files |-> store ])

Logged(kind, job) == log' = Append(log, << kind, job >>)

\* lines 40-45: the sorted template files, or SystemExit without the directory
list_templates(dir) == dir.files

\* lines 140-143: no templates directory or no template ends the run
StartFails ==
  /\ pc = "start"
  /\ ~templates_dir.exists \/ list_templates(templates_dir) = << >>
  /\ pc' = "exit"
  /\ UNCHANGED << templates_dir, templates, i, tpl, exc, locals, ctx, out_dirs, writers,
                  results, log, attempted, build_failed >>
  /\ UNCHANGED << srcVars, pkgVars >>

\* lines 140-145
Start ==
  /\ pc = "start"
  /\ templates_dir.exists
  /\ list_templates(templates_dir) # << >>
  /\ templates' = list_templates(templates_dir)
  /\ pc' = "loop"
  /\ UNCHANGED << templates_dir, i, tpl, exc, locals, ctx, out_dirs, writers, results,
                  log, attempted, build_failed >>
  /\ UNCHANGED << srcVars, pkgVars >>

\* lines 147-150: next iteration, random.choice(templates), call build_one
LoopChoose ==
  /\ pc = "loop"
  /\ i < NUM
  /\ \E t \in 1..Len(templates) : tpl' = t
  /\ attempted' = attempted \cup { i }
  /\ pc' = "load"
  /\ UNCHANGED << templates_dir, templates, i, exc, locals, ctx, out_dirs, writers, results, log,
                  build_failed >>
  /\ UNCHANGED << srcVars, pkgVars >>

\* lines 84-87 for a sidecar that load_metadata turns into a dict
LoadMetadata ==
  /\ pc = "load"
  /\ load_metadata(templates[tpl]).dict
  /\ meta' = load_metadata(templates[tpl]).fields
  /\ cflags_choices' = Get(meta', "cflags", DEFAULT_CFLAGS_CHOICES)
  /\ pad_max' = PadMaxOf(meta')
  /\ difficulty' = Get(meta', "difficulty", DEFAULT_DIFFICULTY)
  /\ IF templates[tpl].sidecar.kind = "unparseable"
     THEN Logged("metadata_failed", i)
     ELSE log' = log
  /\ pc' = "prepare"
  /\ UNCHANGED << templates_dir, templates, i, tpl, exc, out_dir, jflag, cflags, built_size, bin_size,
                  pad_len, meta_out, ctx, out_dirs, writers, results, attempted,
                  build_failed >>
  /\ UNCHANGED << srcVars, pkgVars >>

\* line 85 for a sidecar that parses to a JSON array: meta.get raises
LoadMetadataNotDict ==
  /\ pc = "load"
  /\ ~load_metadata(templates[tpl]).dict
  /\ exc' = "AttributeError"
  /\ pc' = "return"
  /\ UNCHANGED << templates_dir, templates, i, tpl, locals, ctx, out_dirs, writers, results, log,
                  attempted, build_failed >>
  /\ UNCHANGED << srcVars, pkgVars >>

\* lines 89-92: out_dir.mkdir, tempfile.mkdtemp
Prepare ==
  /\ pc = "prepare"
  /\ out_dir' = OutDirName(templates[tpl].stem, i)
  /\ out_dirs' = [ j \in (DOMAIN out_dirs) \cup { i } |->
                     IF j = i THEN out_dir' ELSE out_dirs[j] ]
  /\ ctx' = [ ctx EXCEPT ![i] = "exists" ]
  /\ pc' = "materialize"
  /\ UNCHANGED << templates_dir, templates, i, tpl, exc, meta, cflags_choices, pad_max, difficulty,
                  jflag, cflags, built_size, bin_size, pad_len, meta_out, writers,
                  results, log, attempted, build_failed >>
  /\ UNCHANGED << srcVars, pkgVars >>

\* an exception inside the try block: control goes to the finally clause
Raise(e) ==
  /\ exc' = e
  /\ pc' = "cleanup"

\* lines 95-101: read the template, generate the flag and the source, write
\* program.c and Dockerfile into the context
Materialize ==
  /\ pc = "materialize"
  /\ \E seed \in JobFlagSeeds : jflag' = gen_flag(seed)
  /\ pc' = "select"
  /\ UNCHANGED << templates_dir, templates, i, tpl, exc, meta, cflags_choices, pad_max, difficulty,
                  out_dir, cflags, built_size, bin_size, pad_len, meta_out, ctx,
                  out_dirs, writers, results, log, attempted, build_failed >>
  /\ UNCHANGED << srcVars, pkgVars >>

\* lines 95-101 when reading the template or writing the context raises
MaterializeFails ==
  /\ pc = "materialize"
  /\ Raise("OSError")
  /\ UNCHANGED << templates_dir, templates, i, tpl, locals, ctx, out_dirs, writers, results, log,
                  attempted, build_failed >>
  /\ UNCHANGED << srcVars, pkgVars >>

\* line 104: random.choice(cflags_choices)
SelectCflags ==
  /\ pc = "select"
  /\ cflags_choices # << >>
  /\ \E k \in 1..Len(cflags_choices) : cflags' = cflags_choices[k]
  /\ pc' = "build"
  /\ UNCHANGED << templates_dir, templates, i, tpl, exc, meta, cflags_choices, pad_max, difficulty,
                  out_dir, jflag, built_size, bin_size, pad_len, meta_out, ctx,
                  out_dirs, writers, results, log, attempted, build_failed >>
  /\ UNCHANGED << srcVars, pkgVars >>

\* line 104 on an empty list: random.choice raises IndexError
SelectCflagsEmpty ==
  /\ pc = "select"
  /\ cflags_choices = << >>
  /\ Raise("IndexError")
  /\ UNCHANGED << templates_dir, templates, i, tpl, locals, ctx, out_dirs, writers, results, log,
                  attempted, build_failed >>
  /\ UNCHANGED << srcVars, pkgVars >>

\* lines 107-109: the build succeeds and exports a binary of some size
BuildOk ==
  /\ pc = "build"
  /\ \E size \in 1..MaxBinSize :
       /\ built_size' = size
       /\ bin_size' = size
  /\ writers' = writers \cup { << out_dir, "challenge", i >> }
  /\ Logged("building", i)
  /\ pc' = "pad"
  /\ UNCHANGED << templates_dir, templates, i, tpl, exc, meta, cflags_choices, pad_max, difficulty,
                  out_dir, jflag, cflags, pad_len, meta_out, ctx, out_dirs, results,
                  attempted, build_failed >>
  /\ UNCHANGED << srcVars, pkgVars >>

\* lines 107-109: the build exits with status 0 and exports no challenge file
BuildOkNoBinary ==
  /\ pc = "build"
  /\ Logged("building", i)
  /\ pc' = "pad"
  /\ UNCHANGED << templates_dir, templates, i, tpl, exc, locals, ctx, out_dirs, writers, results,
                  attempted, build_failed >>
  /\ UNCHANGED << srcVars, pkgVars >>

\* line 109: non-zero exit status, check=True raises CalledProcessError
BuildFails ==
  /\ pc = "build"
  /\ Logged("building", i)
  /\ build_failed' = build_failed \cup { i }
  /\ Raise("CalledProcessError")
  /\ UNCHANGED << templates_dir, templates, i, tpl, locals, ctx, out_dirs, writers, results,
                  attempted >>
  /\ UNCHANGED << srcVars, pkgVars >>

\* line 109: the build tool cannot be started, subprocess.run raises
\* FileNotFoundError
BuildCannotStart ==
  /\ pc = "build"
  /\ Logged("building", i)
  /\ build_failed' = build_failed \cup { i }
  /\ Raise("FileNotFoundError")
  /\ UNCHANGED << templates_dir, templates, i, tpl, locals, ctx, out_dirs, writers, results,
                  attempted >>
  /\ UNCHANGED << srcVars, pkgVars >>

\* lines 112-118: draw the pad length and append that many bytes
Pad ==
  /\ pc = "pad"
  /\ bin_size # 0 /\ PadWanted(pad_max)
  /\ \E n \in PadDraws(pad_max) :
       /\ pad_len' = n
       /\ bin_size' = bin_size + n
  /\ pc' = "record"
  /\ UNCHANGED << templates_dir, templates, i, tpl, exc, meta, cflags_choices, pad_max, difficulty,
                  out_dir, jflag, cflags, built_size, meta_out, ctx, out_dirs, writers,
                  results, log, attempted, build_failed >>
  /\ UNCHANGED << srcVars, pkgVars >>

\* lines 113-114: no binary or no positive ceiling, pad_len stays 0
PadSkipped ==
  /\ pc = "pad"
  /\ ~(bin_size # 0 /\ PadWanted(pad_max))
  /\ pad_len' = 0
  /\ pc' = "record"
  /\ UNCHANGED << templates_dir, templates, i, tpl, exc, meta, cflags_choices, pad_max, difficulty,
                  out_dir, jflag, cflags, built_size, bin_size, meta_out, ctx, out_dirs,
                  writers, results, log, attempted, build_failed >>
  /\ UNCHANGED << srcVars, pkgVars >>

\* lines 117-118 when opening or appending to the binary raises
PadFails ==
  /\ pc = "pad"
  /\ bin_size # 0 /\ PadWanted(pad_max)
  /\ Raise("OSError")
  /\ UNCHANGED << templates_dir, templates, i, tpl, locals, ctx, out_dirs, writers, results, log,
                  attempted, build_failed >>
  /\ UNCHANGED << srcVars, pkgVars >>

\* lines 121-131: build meta_out, write meta.json, print, return meta_out
Record ==
  /\ pc = "record"
  /\ meta_out' = [ template |-> TemplateName(templates[tpl]), flag |-> jflag,
                   cflags |-> cflags, pad |-> pad_len, difficulty |-> difficulty ]
  /\ writers' = writers \cup { << out_dir, "meta.json", i >> }
  /\ Logged("built", i)
  /\ pc' = "cleanup"
  /\ UNCHANGED << templates_dir, templates, i, tpl, exc, meta, cflags_choices, pad_max, difficulty,
                  out_dir, jflag, cflags, built_size, bin_size, pad_len, ctx, out_dirs,
                  results, attempted, build_failed >>
  /\ UNCHANGED << srcVars, pkgVars >>

\* line 128 when writing meta.json raises
RecordFails ==
  /\ pc = "record"
  /\ meta_out' = [ template |-> TemplateName(templates[tpl]), flag |-> jflag,
                   cflags |-> cflags, pad |-> pad_len, difficulty |-> difficulty ]
  /\ Raise("OSError")
  /\ UNCHANGED << templates_dir, templates, i, tpl, meta, cflags_choices, pad_max, difficulty,
                  out_dir, jflag, cflags, built_size, bin_size, pad_len, ctx, out_dirs,
                  writers, results, log, attempted, build_failed >>
  /\ UNCHANGED << srcVars, pkgVars >>

\* the finally clause without its rmtree
CleanupOnlyOnSuccess ==
  /\ pc = "cleanup"
  /\ \/ /\ exc = "none"
        /\ ctx' = [ ctx EXCEPT ![i] = "removed" ]
     \/ /\ exc # "none"
        /\ ctx' = ctx
  /\ pc' = "return"
  /\ UNCHANGED << templates_dir, templates, i, tpl, exc, locals, out_dirs, writers, results, log,
                  attempted, build_failed >>
  /\ UNCHANGED << srcVars, pkgVars >>

\* lines 133-137: shutil.rmtree(tmp) removes the context, or raises and the
\* warning is printed
Cleanup ==
  /\ pc = "cleanup"
  /\ \/ /\ ctx' = [ ctx EXCEPT ![i] = "removed" ]
        /\ log' = log
     \/ /\ ctx' = ctx
        /\ Logged("rmtree_warning", i)
  /\ pc' = "return"
  /\ UNCHANGED << templates_dir, templates, i, tpl, exc, locals, out_dirs, writers, results,
                  attempted, build_failed >>
  /\ UNCHANGED << srcVars, pkgVars >>

\* what the results list keeps of a returned meta_out: results entries carry
\* the job and the template-determined fields
ResultEntry(m, job) == [ job |-> job, template |-> m.template, difficulty |-> m.difficulty ]

\* build_one is left: its locals are gone, the loop goes on or ends
Leave(next_i) ==
  /\ i' = next_i
  /\ tpl' = 0
  /\ exc' = "none"
  /\ ClearLocals
  /\ pc' = IF next_i < NUM THEN "loop" ELSE "summary"

\* lines 150-151: build_one returned r, results.append(r)
ReturnOk ==
  /\ pc = "return"
  /\ exc = "none"
  /\ results' = IF DOMAIN meta_out # {} THEN Append(results, ResultEntry(meta_out, i))
                ELSE results
  /\ Leave(i + 1)
  /\ UNCHANGED << templates_dir, templates, ctx, out_dirs, writers, log, attempted, build_failed >>
  /\ UNCHANGED << srcVars, pkgVars >>

\* lines 152-153: except subprocess.CalledProcessError
ReturnCaught ==
  /\ pc = "return"
  /\ exc = "CalledProcessError"
  /\ Logged("build_failed", i)
  /\ Leave(i + 1)
  /\ UNCHANGED << templates_dir, templates, ctx, out_dirs, writers, results, attempted, build_failed >>
  /\ UNCHANGED << srcVars, pkgVars >>

\* any other exception leaves the for loop and ends the run with a traceback
ReturnUncaught ==
  /\ pc = "return"
  /\ exc \notin { "none", "CalledProcessError" }
  /\ pc' = "crashed"
  /\ UNCHANGED << templates_dir, templates, i, tpl, exc, locals, ctx, out_dirs, writers, results, log,
                  attempted, build_failed >>
  /\ UNCHANGED << srcVars, pkgVars >>

\* lines 155-157
Summary ==
  /\ pc = "summary"
  /\ pc' = "done"
  /\ Logged("summary", Len(results))
  /\ UNCHANGED << templates_dir, templates, i, tpl, exc, locals, ctx, out_dirs, writers, results,
                  attempted, build_failed >>
  /\ UNCHANGED << srcVars, pkgVars >>

Next ==
  \/ StartFails \/ Start \/ LoopChoose
  \/ LoadMetadata \/ LoadMetadataNotDict
  \/ Prepare
  \/ Materialize \/ MaterializeFails
  \/ SelectCflags \/ SelectCflagsEmpty
  \/ BuildOk \/ BuildOkNoBinary \/ BuildFails \/ BuildCannotStart
  \/ Pad \/ PadSkipped \/ PadFails
  \/ Record \/ RecordFails
  \/ Cleanup
  \/ ReturnOk \/ ReturnCaught \/ ReturnUncaught
  \/ Summary

\* the generator's variables while another program of the repository runs
IdleGen ==
  /\ templates_dir = [ exists |-> FALSE, files |-> << >> ]
  /\ templates = << >>
  /\ pc = "idle"
  /\ i = 0
  /\ tpl = 0
  /\ exc = "none"
  /\ NoLocals
  /\ ctx = [ j \in 0..(NUM - 1) |-> "none" ]
  /\ out_dirs = << >>
  /\ writers = {}
  /\ results = << >>
  /\ log = << >>
  /\ attempted = {}
  /\ build_failed = {}

(***************************************************************************)
(* Content generator as a state machine                                    *)
(***************************************************************************)
\* template texts: concatenations of placeholder tokens and brace fragments
Pieces == { PH_FLAG, PH_XOR_ENC, PH_KEY, PH_RANDOM_INT, <<"{">>, <<"}">> }

PieceSeqs == UNION { [ 1..n -> Pieces ] : n \in 0..MaxPieces }

TemplateTexts == { Flatten(ps) : ps \in PieceSeqs }

\* templates that use the XOR placeholder pair
XorTemplateTexts ==
  { PH_XOR_ENC \o PH_KEY,
    PH_FLAG \o PH_XOR_ENC \o PH_KEY \o PH_XOR_ENC,
    PH_KEY \o PH_RANDOM_INT \o PH_XOR_ENC }

\* draws of random.randint(1, RANDOM_INT_MAX) that the model follows
RandomIntDraws == { 1, 42, RANDOM_INT_MAX }

\* draws of random.randint(1, KEY_MAX) that SpecSrc follows (SpecXor follows all)
KeyDraws == { 1, 96, KEY_MAX }

\* the content generator's variables while another program runs
IdleSrc ==
  /\ tpl_text = << >>
  /\ flag = << >>
  /\ program = << >>
  /\ enc = << >>
  /\ key = 0
  /\ spc = "idle"

InitSrc ==
  /\ IdleGen
  /\ IdlePkg
  /\ tpl_text \in TemplateTexts
  /\ flag \in { gen_flag(seed) : seed \in 0..MaxSeed }
  /\ program = << >>
  /\ enc = << >>
  /\ key = 0
  /\ spc = "flag"

\* prepare_program_from_template, line 68
PrepFlag ==
  /\ spc = "flag"
  /\ program' = SubstFlag(tpl_text, flag)
  /\ spc' = "xor"
  /\ UNCHANGED << genVars, pkgVars >>
  /\ UNCHANGED << tpl_text, flag, enc, key >>

\* lines 71-74, {XOR_ENC} present, the key drawn from keys
PrepXorWith(keys) ==
  /\ spc = "xor"
  /\ Contains(program, PH_XOR_ENC)
  /\ \E k \in keys :
       LET r == xor_encode_bytes(flag, k)
       IN /\ enc' = r[1]
          /\ key' = r[2]
  /\ program' = SubstXor(program, enc', key')
  /\ spc' = "random"
  /\ UNCHANGED << genVars, pkgVars >>
  /\ UNCHANGED << tpl_text, flag >>

PrepXor == PrepXorWith(1..KEY_MAX)

PrepXorDraw == PrepXorWith(KeyDraws)

\* line 71, {XOR_ENC} absent: xor_encode_bytes is not called
PrepSkipXor ==
  /\ spc = "xor"
  /\ ~Contains(program, PH_XOR_ENC)
  /\ spc' = "random"
  /\ UNCHANGED << genVars, pkgVars >>
  /\ UNCHANGED << tpl_text, flag, program, enc, key >>

\* lines 77-79, {RANDOM_INT} present
PrepRandomInt ==
  /\ spc = "random"
  /\ Contains(program, PH_RANDOM_INT)
  /\ \E ri \in RandomIntDraws : program' = SubstRandomInt(program, ri)
  /\ spc' = "returned"
  /\ UNCHANGED << genVars, pkgVars >>
  /\ UNCHANGED << tpl_text, flag, enc, key >>

\* line 77, {RANDOM_INT} absent
PrepSkipRandomInt ==
  /\ spc = "random"
  /\ ~Contains(program, PH_RANDOM_INT)
  /\ spc' = "returned"
  /\ UNCHANGED << genVars, pkgVars >>
  /\ UNCHANGED << tpl_text, flag, program, enc, key >>

NextSrc == PrepFlag \/ PrepXorDraw \/ PrepSkipXor \/ PrepRandomInt \/ PrepSkipRandomInt

SpecSrc == InitSrc /\ [][NextSrc]_vars

\* the XOR branch under every key
InitXor ==
  /\ IdleGen
  /\ IdlePkg
  /\ tpl_text \in XorTemplateTexts
  /\ flag \in { gen_flag(seed) : seed \in 0..MaxSeed }
  /\ program = << >>
  /\ enc = << >>
  /\ key = 0
  /\ spc = "flag"

NextXor == PrepFlag \/ PrepXor \/ PrepRandomInt \/ PrepSkipRandomInt

SpecXor == InitXor /\ [][NextXor]_vars

(***************************************************************************)
(* The specifications of the generator run and of the packager run         *)
(***************************************************************************)
Init == InitGen /\ IdleSrc /\ IdlePkg

Spec == Init /\ [][Next]_vars

InitPkgRun == InitPkg /\ IdleGen /\ IdleSrc

SpecPkg == InitPkgRun /\ [][NextPkg]_vars

(***************************************************************************)
(* Properties of the content generator                                     *)
(***************************************************************************)
HexVal(c) == IF c \in Range(HexDigits) THEN IndexOf(c, HexDigits) - 1 ELSE -1

\* the bytes a C compiler reads from "\xNN\xNN..."; << -1 >> when malformed
ParseEsc(e) ==
  IF /\ Len(e) % 4 = 0
     /\ \A n \in 1..(Len(e) \div 4) :
          /\ e[(4 * n) - 3] = "\\"
          /\ e[(4 * n) - 2] = "x"
          /\ HexVal(e[(4 * n) - 1]) >= 0
          /\ HexVal(e[4 * n]) >= 0
  THEN [ n \in 1..(Len(e) \div 4) |-> (16 * HexVal(e[(4 * n) - 1])) + HexVal(e[4 * n]) ]
  ELSE << -1 >>

RECURSIVE ParseDec(_)
\* the integer a C compiler reads from a decimal literal
ParseDec(d) ==
  IF d = << >> THEN 0
  ELSE (10 * ParseDec(SubSeq(d, 1, Len(d) - 1))) + (IndexOf(d[Len(d)], digits) - 1)

XorDecode(e, kd) ==
  LET bs == ParseEsc(e)
      k == ParseDec(kd)
  IN [ n \in 1..Len(bs) |-> IF bs[n] \in 0..255 /\ k \in 0..255 THEN Xor(bs[n], k) ELSE -1 ]

IsFlagTokenAt(s, n) ==
  /\ n + FLAG_K + 5 <= Len(s)
  /\ MatchAt(s, <<"f","l","a","g","{">>, n)
  /\ \A k \in 1..FLAG_K : s[n + 4 + k] \in Range(ascii_lowercase) \cup Range(digits)
  /\ s[n + FLAG_K + 5] = "}"

HasFlagToken(s) == \E n \in 1..Len(s) : IsFlagTokenAt(s, n)

\* C7: when the template contains {XOR_ENC}, the escape sequence and the
\* decimal key that were substituted into the source decode, by byte-wise
\* XOR, to exactly the bytes of the flag substituted for {FLAG}; the key is
\* in 1..255 and the escape sequence stands in the source.
C7_XorRoundTrip ==
  (spc \in {"random", "returned"} /\ Contains(tpl_text, PH_XOR_ENC))
    => /\ key \in 1..KEY_MAX
       /\ XorDecode(enc, Str(key)) = Encode(flag)
       /\ Contains(program, enc)
       /\ ~Contains(program, PH_XOR_ENC)

\* a generation with {FLAG}, {XOR_ENC} and {KEY}, whose key gives an encoded
\* byte below 0x10
C7_Witness ==
  /\ spc = "returned"
  /\ tpl_text = PH_FLAG \o PH_XOR_ENC \o PH_KEY \o PH_XOR_ENC
  /\ key = 96
  /\ XorDecode(enc, Str(key)) = Encode(flag)
  /\ Contains(program, Str(key))

\* C8: for a template containing {FLAG}, the source returned by
\* prepare_program_from_template contains a token flag{<12 lowercase
\* letters or digits>} and no literal {FLAG}.
C8_FlagToken ==
  (spc = "returned" /\ Contains(tpl_text, PH_FLAG))
    => /\ HasFlagToken(program)
       /\ Contains(program, flag)
       /\ ~Contains(program, PH_FLAG)

\* a returned source for a template with {FLAG} twice
C8_Witness ==
  /\ spc = "returned"
  /\ tpl_text = PH_FLAG \o PH_XOR_ENC \o PH_FLAG
  /\ program = flag \o enc \o flag

(***************************************************************************)
(* Properties of the generator run                                         *)
(***************************************************************************)
Jobs == 0..(NUM - 1)

\* build_one(tpl, j) has been called and has returned or raised
Ended(j) ==
  /\ j \in attempted
  /\ j < i \/ pc \in { "return", "crashed", "summary", "done" }

RunOver == pc \in { "done", "crashed" }

ResultJobs == { results[n].job : n \in 1..Len(results) }

FailureLines(j) == { n \in 1..Len(log) : log[n] = << "build_failed", j >> }

WroteMeta(j) == \E w \in writers : w[2] = "meta.json" /\ w[3] = j

\* C1: a run over a non-empty template set attempts exactly NUM jobs whatever
\* happens inside each job; the summary has at most NUM entries; every job
\* that failed has exactly one failure line in the log.
C1_AllJobsAttempted ==
  RunOver =>
    /\ attempted = Jobs
    /\ Len(results) <= NUM
    /\ \A j \in attempted : j \notin ResultJobs => Cardinality(FailureLines(j)) = 1

\* C2 as stated: the build context of every finished build_one call is gone,
\* so no context of an earlier job exists when a later job starts.
C2_ContextAlwaysRemoved ==
  \A j \in Jobs : Ended(j) => ctx[j] # "exists"

\* C2 as amended: every finished build_one call that created a context has
\* either removed it or printed the rmtree warning for it, never both and
\* never neither; a context of an earlier job that exists when a later job
\* starts is one whose removal failed.
C2_ContextRemovedOrWarned ==
  \A j \in Jobs :
    /\ (Ended(j) /\ ctx[j] # "none")
         => ((ctx[j] = "removed") <=> (<< "rmtree_warning", j >> \notin Range(log)))
    /\ (pc = "load" /\ j < i /\ ctx[j] = "exists")
         => << "rmtree_warning", j >> \in Range(log)

\* job 0 failed in the external build, its context is removed, job 1 starts
C2_Witness ==
  /\ pc = "load"
  /\ i = 1
  /\ 0 \in build_failed
  /\ ctx[0] = "removed"
  /\ << "build_failed", 0 >> \in Range(log)

\* C3: a job whose external build fails writes no meta.json, has no entry
\* in results, and the loop goes on to the next job; an entry in results
\* belongs to a job that wrote its meta.json.
C3_BuildFailureIsolated ==
  /\ \A j \in build_failed :
       /\ ~WroteMeta(j)
       /\ j \notin ResultJobs
       /\ Ended(j) => pc # "crashed"
  /\ \A j \in ResultJobs : WroteMeta(j)

\* the Pad step of the running job is over
PadDone ==
  \/ pc = "record"
  \/ pc \in { "cleanup", "return" } /\ DOMAIN meta_out # {}

\* the sidecar names no ceiling
CeilingMissing == "pad_max" \notin DOMAIN meta /\ "pad" \notin DOMAIN meta

\* C6 as stated: after the Pad step the binary is not smaller than before,
\* it grew by the recorded pad count, the pad count is in 0..ceiling, and
\* the pad count is 0 when the binary is absent or the ceiling is missing,
\* zero or negative.
C6_PadWithinCeiling ==
  PadDone =>
    /\ bin_size >= built_size
    /\ bin_size - built_size = pad_len
    /\ DOMAIN meta_out # {} => meta_out.pad = pad_len
    /\ pad_len >= 0
    /\ (pad_max # None /\ pad_max.int > 0) => pad_len <= pad_max.int
    /\ (built_size = 0 \/ CeilingMissing \/ pad_max = None \/ pad_max.int <= 0)
         => pad_len = 0

\* C6 as amended: the ceiling is the sidecar's pad_max, else its pad, else
\* 1024; after the Pad step the binary grew by exactly the recorded pad
\* count, which is in 0..ceiling, and is 0 when the binary is absent or the
\* ceiling is null, zero or negative.
C6_PadWithinEffectiveCeiling ==
  PadDone =>
    /\ pad_max = (IF "pad_max" \in DOMAIN meta THEN meta.pad_max
                  ELSE IF "pad" \in DOMAIN meta THEN meta.pad
                  ELSE JInt(1024))
    /\ bin_size >= built_size
    /\ bin_size - built_size = pad_len
    /\ DOMAIN meta_out # {} => meta_out.pad = pad_len
    /\ pad_len >= 0
    /\ (pad_max # None /\ pad_max.int > 0) => pad_len <= pad_max.int
    /\ (built_size = 0 \/ pad_max = None \/ pad_max.int <= 0) => pad_len = 0

\* a job without sidecar fields padded its binary by the full default ceiling
\* and recorded it
C6_Witness ==
  /\ pc = "return"
  /\ exc = "none"
  /\ CeilingMissing
  /\ built_size > 0
  /\ pad_len = 1024
  /\ bin_size = built_size + 1024
  /\ meta_out.pad = 1024

\* C9: distinct jobs of a run have distinct output directories, and no
\* output file is written by two jobs.
C9_DistinctOutDirs ==
  /\ \A j1, j2 \in DOMAIN out_dirs : j1 # j2 => out_dirs[j1] # out_dirs[j2]
  /\ \A w1, w2 \in writers : (w1[1] = w2[1] /\ w1[2] = w2[2]) => w1[3] = w2[3]

\* a finished run whose jobs 0 and 1 used stems a_1 and a, giving a_1_0 and a_1
C9_Witness ==
  /\ pc = "done"
  /\ out_dirs[0] = << "a", "_", "1", "_", "0" >>
  /\ out_dirs[1] = << "a", "_", "1" >>
  /\ out_dirs[2] = << "a", "_", "2" >>
  /\ WroteMeta(0) /\ WroteMeta(1) /\ WroteMeta(2)

\* build_one's configuration locals are assigned
Configured ==
  /\ tpl # 0
  /\ pc \in { "prepare", "materialize", "select", "build", "pad", "record", "cleanup" }

\* C10: the sidecar never aborts the job or the run; absent or unparseable,
\* the job runs with the five default flag strings, ceiling 1024 and
\* difficulty "unknown"; parseable, the job uses its cflags, pad_max/pad and
\* difficulty fields, each missing one replaced by its default.
C10_SidecarNeverAborts ==
  /\ exc \notin { "AttributeError", "IndexError" }
  /\ Configured =>
       LET sc == templates[tpl].sidecar
       IN /\ sc.kind \in { "absent", "unparseable" } =>
               /\ cflags_choices = << "-O0 -g", "-O2", "-Os", "-O3", "-O1 -s" >>
               /\ pad_max = JInt(1024)
               /\ difficulty = "unknown"
          /\ sc.kind = "object" =>
               /\ cflags_choices = (IF "cflags" \in DOMAIN sc.fields THEN sc.fields.cflags
                                    ELSE << "-O0 -g", "-O2", "-Os", "-O3", "-O1 -s" >>)
               /\ pad_max = (IF "pad_max" \in DOMAIN sc.fields THEN sc.fields.pad_max
                             ELSE IF "pad" \in DOMAIN sc.fields THEN sc.fields.pad
                             ELSE JInt(1024))
               /\ difficulty = (IF "difficulty" \in DOMAIN sc.fields THEN sc.fields.difficulty
                                ELSE "unknown")

(***************************************************************************)
(* Properties of the packager run                                          *)
(***************************************************************************)
PkgOver == ppc \in { "exit", "done" }

\* p named a file when the run started
ExistedAtStart(p) ==
  IF p.dir = "out" THEN prior.exists /\ p.base \in Names(prior.files)
  ELSE p \in WorkspaceFiles

Requested == normalize_entries(manifest).entries

RequestedNames == { Requested[n][1] : n \in DOMAIN Requested }

\* C4: a manifest with an entry that names no file ends the run with a
\* non-zero status and leaves the output directory absent or as it was.
C4_MissingFileLeavesDirUntouched ==
  (/\ PkgOver
   /\ normalize_entries(manifest).ok
   /\ \E n \in DOMAIN Requested : ~ExistedAtStart(Requested[n][2]))
    => /\ status = 1
       /\ bd_exists = prior.exists
       /\ bd_files = prior.files

\* C5: a manifest whose entries all name existing files ends, whatever the
\* output directory held, with exactly the requested names plus the
\* Dockerfile in the output directory and a compose file naming the service,
\* the image and that directory.
C5_PackagesExactly ==
  (/\ PkgOver
   /\ normalize_entries(manifest).ok
   /\ \A n \in DOMAIN Requested : ExistedAtStart(Requested[n][2]))
    => /\ ppc = "done"
       /\ status = 0
       /\ Names(bd_files) = RequestedNames \cup { DOCKERFILE_NAME }
       /\ ContentAt(bd_files, DOCKERFILE_NAME) = Recipe
       /\ compose = [ service |-> service, image |-> image, context |-> "out" ]

====
